---- MODULE Spec2Model ----
(***************************************************************************)
(* Job Scout backend (src/backend/main.py): the aggregation pipeline of    *)
(* POST /get-jobs and POST /search-all.                                    *)
(*                                                                         *)
(* A job record is a function from field names to values.  Text fields     *)
(* (site, title, company, location, description, job_url) hold strings; a  *)
(* field name absent from the record's domain is a key absent from the     *)
(* Python dict.  Values whose Python type varies are tagged records:       *)
(*   None = [none |-> TRUE]      float NaN = [nan |-> TRUE]                *)
(*   a number n = [num |-> n]    a str s = [str |-> s]                     *)
(*   a list l = [list |-> l]     a datetime d = [dt |-> d]                 *)
(* The external scrapers (jobspy.scrape_jobs, the USAJOBS REST endpoint)   *)
(* are the environment: each call returns a bounded list of records drawn  *)
(* from a fixed universe, or raises.  hours_old and search_term only feed  *)
(* those external calls and are not part of the state.                     *)
(***************************************************************************)
EXTENDS Integers, Sequences, FiniteSets, TLC

(***************************************************************************)
(* Python values                                                           *)
(***************************************************************************)
None == [none |-> TRUE]
NaN == [nan |-> TRUE]
Num(n) == [num |-> n]
Str(s) == [str |-> s]
List(l) == [list |-> l]
Datetime(d) == [dt |-> d]

IsNone(v) == "none" \in DOMAIN v
IsNaN(v) == "nan" \in DOMAIN v
IsNum(v) == "num" \in DOMAIN v
IsStr(v) == "str" \in DOMAIN v
IsList(v) == "list" \in DOMAIN v
IsDatetime(v) == "dt" \in DOMAIN v

\* dict.get(key, default)
Get(job, key, default) == IF key \in DOMAIN job THEN job[key] ELSE default

\* job[key] = value
Put(job, key, value) == [k \in DOMAIN job \cup {key} |-> IF k = key THEN value ELSE job[k]]

(***************************************************************************)
(* Python str methods, on TLA+ strings                                     *)
(***************************************************************************)
UpperChars == "ABCDEFGHIJKLMNOPQRSTUVWXYZ"
LowerChars == "abcdefghijklmnopqrstuvwxyz"

CharAt(s, i) == SubSeq(s, i, i)

\* The lower-case letter of each upper-case letter.
LowerTable ==
    [c \in {CharAt(UpperChars, i) : i \in 1..Len(UpperChars)} |->
        CharAt(LowerChars, CHOOSE i \in 1..Len(UpperChars) : CharAt(UpperChars, i) = c)]

LowerChar(c) == IF c \in DOMAIN LowerTable THEN LowerTable[c] ELSE c

\* str.lower()
RECURSIVE lower(_)
lower(s) == IF s = "" THEN "" ELSE LowerChar(CharAt(s, 1)) \o lower(SubSeq(s, 2, Len(s)))

\* str.strip() (whitespace of the model's alphabet: the space)
RECURSIVE strip(_)
strip(s) ==
    IF s = "" THEN ""
    ELSE IF CharAt(s, 1) = " " THEN strip(SubSeq(s, 2, Len(s)))
    ELSE IF CharAt(s, Len(s)) = " " THEN strip(SubSeq(s, 1, Len(s) - 1))
    ELSE s

\* sub in s
In(sub, s) == \E i \in 0..(Len(s) - Len(sub)) : SubSeq(s, i + 1, i + Len(sub)) = sub

\* s.endswith(suffix)
endswith(s, suffix) ==
    Len(suffix) <= Len(s) /\ SubSeq(s, Len(s) - Len(suffix) + 1, Len(s)) = suffix

\* any(kw in s for kw in kws), kws a sequence of strings
AnyIn(kws, s) == \E i \in 1..Len(kws) : In(kws[i], s)

\* [kw.lower() for kw in kws]
LowerAll(kws) == [i \in 1..Len(kws) |-> lower(kws[i])]

\* Mutant of CountIn: a list of keywords counts once however many of them occur.
AnyCount(kws, s) == IF AnyIn(kws, s) THEN 1 ELSE 0

\* sum(1 for kw in kws if kw in s)
CountIn(kws, s) == Cardinality({i \in 1..Len(kws) : In(kws[i], s)})

(***************************************************************************)
(* filter_jobs: exclusion by title                                         *)
(***************************************************************************)
\* The comprehension of filter_jobs: the condition under which a job stays.
TitleClear(job, exclude_lower) == ~AnyIn(exclude_lower, lower(Get(job, "title", "")))

filter_jobs(jobs, exclude_list) ==
    IF exclude_list = <<>> THEN jobs
    ELSE LET exclude_lower == LowerAll(exclude_list)
         IN  SelectSeq(jobs, LAMBDA job : TitleClear(job, exclude_lower))

(***************************************************************************)
(* AND mode of get_jobs / search_all                                       *)
(***************************************************************************)
\* Mutant of HasAllKeywords: any() in place of all().
HasAnyKeyword(job, keywords_lower) ==
    \E i \in 1..Len(keywords_lower) :
        \/ In(keywords_lower[i], lower(Get(job, "title", "")))
        \/ In(keywords_lower[i], lower(Get(job, "description", "")))

\* all(kw in title.lower() or kw in description.lower() for kw in keywords_lower)
HasAllKeywords(job, keywords_lower) ==
    \A i \in 1..Len(keywords_lower) :
        \/ In(keywords_lower[i], lower(Get(job, "title", "")))
        \/ In(keywords_lower[i], lower(Get(job, "description", "")))

\* request.requireAllKeywords and request.keywords: None and [] are both falsy
AndModeOn(request) ==
    /\ request.requireAllKeywords
    /\ IsList(request.keywords)
    /\ request.keywords.list # <<>>

require_all_keywords(jobs, request) ==
    IF AndModeOn(request)
    THEN LET keywords_lower == LowerAll(request.keywords.list)
         IN  SelectSeq(jobs, LAMBDA job : HasAllKeywords(job, keywords_lower))
    ELSE jobs

(***************************************************************************)
(* dedupe_jobs                                                             *)
(***************************************************************************)
\* truthiness of job.get("job_url"): a missing key gives None, "" is falsy
UrlOf(job) == Get(job, "job_url", "")

\* Mutant of DedupeFrom: the empty job_url is deduplicated like any other.
RECURSIVE DedupeAlsoEmpty(_, _, _)
DedupeAlsoEmpty(jobs, seen, unique) ==
    IF jobs = <<>> THEN unique
    ELSE LET job == Head(jobs)
             url == UrlOf(job)
         IN  IF url \notin seen
             THEN DedupeAlsoEmpty(Tail(jobs), seen \cup {url}, Append(unique, job))
             ELSE DedupeAlsoEmpty(Tail(jobs), seen, unique)

RECURSIVE DedupeFrom(_, _, _)
DedupeFrom(jobs, seen, unique) ==
    IF jobs = <<>> THEN unique
    ELSE LET job == Head(jobs)
             url == UrlOf(job)
         IN  IF url # "" /\ url \notin seen
             THEN DedupeFrom(Tail(jobs), seen \cup {url}, Append(unique, job))
             ELSE IF url = ""
             THEN DedupeFrom(Tail(jobs), seen, Append(unique, job))
             ELSE DedupeFrom(Tail(jobs), seen, unique)

dedupe_jobs(jobs) == DedupeFrom(jobs, {}, <<>>)

(***************************************************************************)
(* validate_remote_jobs                                                    *)
(***************************************************************************)
salary_threshold == 150000

generic_locations ==
    <<"remote", "usa", "united states", "anywhere", "work from home", "wfh", "nationwide">>

state_abbrevs ==
    <<"al", "ak", "az", "ar", "ca", "co", "ct", "de", "fl", "ga",
      "hi", "id", "il", "in", "ia", "ks", "ky", "la", "me", "md",
      "ma", "mi", "mn", "ms", "mo", "mt", "ne", "nv", "nh", "nj",
      "nm", "ny", "nc", "nd", "oh", "ok", "or", "pa", "ri", "sc",
      "sd", "tn", "tx", "ut", "vt", "va", "wa", "wv", "wi", "wy", "dc">>

TypeError == [raise |-> "TypeError"]
IsRaise(v) == "raise" \in DOMAIN v

\* job.get(key) or 0: None, 0 and "" are falsy; NaN is truthy
OrZero(v) ==
    IF IsNone(v) \/ (IsNum(v) /\ v.num = 0) \/ (IsStr(v) /\ v.str = "") THEN Num(0) ELSE v

\* b > a on Python values: TypeError between str and a number, False with a NaN
\* operand. Two str compare without error; the result only feeds the
\* comparison with the threshold, which raises for any str.
PyGreater(b, a) ==
    IF IsStr(a) /\ IsStr(b) THEN FALSE
    ELSE IF IsNaN(a) \/ IsNaN(b) THEN FALSE
    ELSE b.num > a.num

\* max(a, b): the first argument unless the second is greater
PyMax(a, b) ==
    IF IsStr(a) # IsStr(b) THEN TypeError
    ELSE IF PyGreater(b, a) THEN b ELSE a

\* salary >= threshold raises TypeError for a str salary (as max() did for a
\* str beside a number)
ComparisonRaises(salary) == IsRaise(salary) \/ IsStr(salary)

\* salary >= threshold, for a salary that does not raise: False for NaN
PyGreaterEq(salary, threshold) == ~IsNaN(salary) /\ salary.num >= threshold

\* str(job.get("location") or "").lower().strip()
LocationOf(job) == strip(lower(Get(job, "location", "")))

IsGeneric(location) == AnyIn(generic_locations, location)

has_state(location) ==
    \E i \in 1..Len(state_abbrevs) :
        \/ In(", " \o state_abbrevs[i], ", " \o location)
        \/ endswith(location, " " \o state_abbrevs[i])

IsSpecific(location) == has_state(location) \/ In(",", location)

\* One iteration of the loop of validate_remote_jobs:
\* [keep |-> job'] when the job is appended to validated, [drop |-> TRUE] when it
\* is skipped, TypeError when the salary comparison raises.
ValidateOne(job) ==
    LET location == LocationOf(job)
        min_salary == OrZero(Get(job, "min_amount", None))
        max_salary == OrZero(Get(job, "max_amount", None))
        salary == PyMax(min_salary, max_salary)
    IN  IF location = "" THEN [keep |-> Put(job, "_remote_validated", TRUE)]
        ELSE IF IsGeneric(location) THEN [keep |-> Put(job, "_remote_validated", TRUE)]
        ELSE IF ComparisonRaises(salary) THEN TypeError
        ELSE IF PyGreaterEq(salary, salary_threshold) THEN [keep |-> Put(Put(job, "_remote_validated", FALSE), "_high_salary", TRUE)]
        ELSE IF IsSpecific(location) THEN [drop |-> TRUE]
        ELSE [keep |-> Put(job, "_remote_validated", TRUE)]

RECURSIVE ValidateFrom(_, _)
ValidateFrom(jobs, validated) ==
    IF jobs = <<>> THEN List(validated)
    ELSE LET r == ValidateOne(Head(jobs))
         IN  IF IsRaise(r) THEN TypeError
             ELSE IF "keep" \in DOMAIN r THEN ValidateFrom(Tail(jobs), Append(validated, r.keep))
             ELSE ValidateFrom(Tail(jobs), validated)

\* List(validated), or TypeError when an iteration raises
validate_remote_jobs(jobs) == ValidateFrom(jobs, <<>>)

(***************************************************************************)
(* score_jobs                                                              *)
(***************************************************************************)
default_mgmt_titles == <<"manager", "director", "head of", "vp ", "vice president">>

default_senior_ic_titles == <<"senior", "sr.", "sr ", "lead", "principal", "staff">>

default_preferred_titles == <<>>

default_bad_titles ==
    <<"developer", "software engineer", "product manager", "project manager",
      "data engineer", "machine learning", "ml ", "ai ", "analytics",
      "financial system", "business system", "hris", "erp", "salesforce",
      "mainframe", "z/os", "as/400", "cobol",
      "expense", "budget", "accounting", "credit", "risk analyst",
      "marketing", "sales engineer", "solutions architect", "pre-sales",
      "recruiting", "talent", "hr ", "human resource">>

default_good_locations == <<"remote">>

default_good_skills ==
    <<"terraform", "ansible", "kubernetes", "docker", "aws", "azure", "gcp">>

default_red_flags == <<"contract to hire", "c2h">>

default_large_companies ==
    <<"amazon", "aws", "google", "microsoft", "meta", "facebook", "apple", "netflix",
      "nvidia", "oracle", "ibm", "cisco", "intel", "salesforce", "adobe",
      "accenture", "deloitte", "kpmg", "pwc", "cognizant", "infosys",
      "wipro", "tcs", "capgemini", "dxc", "hcl",
      "robert half", "randstad", "manpower", "kelly services", "adecco",
      "insight global", "teksystems", "apex systems">>

\* scoring.get(name, default), scoring == CONFIG.get("scoring", {})
ScoringList(config, name, default) == Get(Get(config, "scoring", <<>>), name, default)

\* The body of the loop of score_jobs: the job with its score and flags written.
ScoreOne(job, config) ==
    LET mgmt_titles == ScoringList(config, "mgmt_titles", default_mgmt_titles)
        senior_ic_titles == ScoringList(config, "senior_ic_titles", default_senior_ic_titles)
        preferred_titles == ScoringList(config, "preferred_titles", default_preferred_titles)
        bad_titles == ScoringList(config, "bad_titles", default_bad_titles)
        good_locations == ScoringList(config, "good_locations", default_good_locations)
        good_skills == ScoringList(config, "good_skills", default_good_skills)
        red_flags == ScoringList(config, "red_flags", default_red_flags)
        large_companies == ScoringList(config, "large_companies", default_large_companies)
        title == lower(Get(job, "title", ""))
        description == lower(Get(job, "description", ""))
        location == lower(Get(job, "location", ""))
        company == lower(Get(job, "company", ""))
        text == title \o " " \o description \o " " \o company
        is_manager == AnyIn(mgmt_titles, title)
        is_senior_ic == AnyIn(senior_ic_titles, title) /\ ~is_manager
        is_large_company == AnyIn(large_companies, company)
        site == lower(Get(job, "site", ""))
        score ==
              (IF is_manager THEN 25 ELSE IF is_senior_ic THEN 10 ELSE -10)
            + (IF preferred_titles # <<>> /\ AnyIn(preferred_titles, title) THEN 15 ELSE 0)
            + (IF AnyIn(bad_titles, title) THEN -20 ELSE 0)
            + (IF AnyIn(good_locations, location) THEN 10 ELSE 0)
            + (IF In("remote", location) \/ In("remote", title) THEN 10 ELSE 0)
            + 5 * CountIn(good_skills, description)
            - 10 * CountIn(red_flags, text)
            + (IF is_large_company THEN -5 ELSE 0)
            + (IF site = "usajobs" THEN 10 ELSE 0)
        j1 == IF is_large_company THEN Put(job, "_large_company", TRUE) ELSE job
        j2 == IF site = "usajobs" THEN Put(j1, "_govt_job", TRUE) ELSE j1
    IN  Put(Put(Put(j2, "_score", score), "_is_manager", is_manager),
            "_is_senior_ic", is_senior_ic)

\* x.get("_score", 0), the sort key
SortKey(job) == Get(job, "_score", 0)

\* Mutant of InsertDescending: a job is placed before the jobs of equal key, as
\* reversing an ascending sort would.
RECURSIVE InsertBeforeTies(_, _)
InsertBeforeTies(sorted, job) ==
    IF sorted = <<>> THEN <<job>>
    ELSE IF SortKey(Head(sorted)) > SortKey(job)
         THEN <<Head(sorted)>> \o InsertBeforeTies(Tail(sorted), job)
         ELSE <<job>> \o sorted

\* sorted(jobs, key=..., reverse=True) is stable: a job is placed behind every
\* job already placed whose key is at least its own.
RECURSIVE InsertDescending(_, _)
InsertDescending(sorted, job) ==
    IF sorted = <<>> THEN <<job>>
    ELSE IF SortKey(Head(sorted)) >= SortKey(job)
         THEN <<Head(sorted)>> \o InsertDescending(Tail(sorted), job)
         ELSE <<job>> \o sorted

RECURSIVE SortedFrom(_, _)
SortedFrom(jobs, sorted) ==
    IF jobs = <<>> THEN sorted
    ELSE SortedFrom(Tail(jobs), InsertDescending(sorted, Head(jobs)))

sorted_by_score(jobs) == SortedFrom(jobs, <<>>)

score_jobs(jobs, config) ==
    sorted_by_score([i \in 1..Len(jobs) |-> ScoreOne(jobs[i], config)])

(***************************************************************************)
(* clean_job_data                                                          *)
(***************************************************************************)
\* The keys whose values are tagged Python values (numbers, dates); the other
\* keys hold str or bool, which clean_job_data leaves as they are.
TaggedKeys == {"min_amount", "max_amount", "date_posted"}

\* datetime.isoformat() of a datetime at midnight
isoformat(d) == d \o "T00:00:00"

CleanValue(v) ==
    IF IsNaN(v) THEN None
    ELSE IF IsDatetime(v) THEN Str(isoformat(v.dt))
    ELSE v

CleanOne(job) ==
    [k \in DOMAIN job |-> IF k \in TaggedKeys THEN CleanValue(job[k]) ELSE job[k]]

clean_job_data(jobs) == [i \in 1..Len(jobs) |-> CleanOne(jobs[i])]

\* jobs[:limit]: a negative limit counts from the end of the list
Slice(jobs, limit) ==
    LET stop == IF limit >= 0 THEN limit ELSE Len(jobs) + limit
    IN  IF stop <= 0 THEN <<>>
        ELSE IF stop >= Len(jobs) THEN jobs
        ELSE SubSeq(jobs, 1, stop)

(***************************************************************************)
(* The environment: what the external sources return                       *)
(***************************************************************************)
\* At most MaxFetched records come back from the external sources to the
\* requests in flight.
MaxFetched == 2

MultiJob(title, company, location, job_url, description, min_amount, max_amount) ==
    [site |-> "indeed", title |-> title, company |-> company, location |-> location,
     job_url |-> job_url, description |-> description, date_posted |-> None,
     min_amount |-> min_amount, max_amount |-> max_amount,
     interval |-> "yearly", job_type |-> "fulltime"]

WithoutKey(job, key) == [k \in DOMAIN job \ {key} |-> job[k]]

\* Records of the multi-site scraper (jobs_df.to_dict(orient="records")).
MultiJobs ==
    { MultiJob("DevOps Manager", "Acme", "Remote", "u1",
               "Kubernetes and Terraform", None, None),
      MultiJob("Sr DevOps Engineer", "Intern Labs", "New York, NY", "u1",
               "kubernetes", NaN, Num(160000)),
      MultiJob("devops intern", "Acme", "Austin TX", "",
               "terraform manager", Num(120000), Str("150k")),
      WithoutKey(MultiJob("Platform Engineer", "Globex", "Boston, MA", "",
                          "TERRAFORM", Num(90000), Num(120000)), "job_url") }

\* Records built by scrape_usajobs from the endpoint's JSON.
GovJobs ==
    { [site |-> "usajobs", title |-> "IT Manager", company |-> "GSA",
       location |-> "Washington, DC", job_url |-> "u1",
       description |-> "kubernetes terraform", date_posted |-> Datetime("2026-01-05"),
       min_amount |-> Num(100000), max_amount |-> Num(140000),
       interval |-> "PA", job_type |-> "Full-time",
       _usajobs_id |-> "GS-1", _department |-> "GSA", _grade |-> "GS",
       _telework |-> TRUE, _remote |-> FALSE] }

SeqsUpTo(S, n) == UNION {[1..k -> S] : k \in 0..n}

Raised == [raise |-> "Exception"]

(***************************************************************************)
(* Configuration and requests                                              *)
(***************************************************************************)
Bool(b) == [bool |-> b]

\* x or False, for an Optional[bool]
OrFalse(v) == IF IsNone(v) THEN FALSE ELSE v.bool

\* list(x or []), for an Optional[list]
OrEmpty(v) == IF IsNone(v) THEN <<>> ELSE v.list

remote_loc == [name |-> "remote", is_remote |-> TRUE]
nyc_loc == [name |-> "nyc", location |-> "New York, NY", distance |-> 25]

\* load_config(): DEFAULTS, overlaid by the file's settings. A key of the file
\* left empty (exclude_keywords:) loads as None.
Config(locations, exclude_keywords, usajobs) ==
    [sites |-> <<"indeed", "linkedin">>, hours_old |-> 72, results_wanted |-> 50,
     country_indeed |-> "USA", linkedin_fetch_description |-> FALSE, verbose |-> 1,
     usajobs_enabled |-> usajobs,
     usajobs_api_key |-> IF usajobs THEN Str("key") ELSE None,
     usajobs_email |-> IF usajobs THEN Str("me@example.org") ELSE None,
     searches |-> <<>>, locations |-> locations,
     exclude_keywords |-> exclude_keywords, include_keywords |-> <<>>]

Configs ==
    { Config(locations, exclude_keywords, usajobs) :
        locations \in {<<>>, <<remote_loc, nyc_loc>>},
        exclude_keywords \in {List(<<>>), None},
        usajobs \in BOOLEAN }

\* JobRequest (sinceWhen only feeds the external calls)
Request(keywords, excludeKeywords, isRemote, location, requireAllKeywords, limit) ==
    [keywords |-> keywords, excludeKeywords |-> excludeKeywords, isRemote |-> isRemote,
     location |-> location, distance |-> 50,
     requireAllKeywords |-> requireAllKeywords, limit |-> limit]

\* The largest limit a request asks for; any integer is accepted, the smallest
\* of the model is -1.
MaxLimit == 2

Requests ==
    { Request(None, None, isRemote, None, FALSE, limit) :
        isRemote \in {None, Bool(TRUE)}, limit \in -1..MaxLimit }

(***************************************************************************)
(* State                                                                   *)
(***************************************************************************)
VARIABLES
    CONFIG,             \* the process-wide configuration, loaded at startup
    pc,                 \* the position of the handler
    endpoint,           \* "get_jobs" or "search_all", "" while idle
    request,            \* the JobRequest being served
    jobs,               \* the local list: jobs of get_jobs, all_jobs of search_all
    locations,          \* search_all: the locations iterated
    loc_i,              \* search_all: the index of the next location
    locations_searched, \* search_all: the names appended so far
    response,           \* the JobResponse returned, None before
    calls,              \* history: the outcome of each external call so far
    merged,             \* history: the records of all sources, once merged
    stage_in,           \* history: the list handed to the stage that ran last
    loaded,             \* history: the value load_config() returned at startup
    suspended           \* the locals of the other request in flight

vars == <<CONFIG, pc, endpoint, request, jobs, locations, loc_i,
          locations_searched, response, calls, merged, stage_in, loaded, suspended>>

\* The locals of the handler that is running.
Locals ==
    [pc |-> pc, endpoint |-> endpoint, request |-> request, jobs |-> jobs,
     locations |-> locations, loc_i |-> loc_i, locations_searched |-> locations_searched,
     response |-> response, calls |-> calls, merged |-> merged, stage_in |-> stage_in]

\* The locals of a handler no request has reached yet.
NoRequest ==
    [pc |-> "idle", endpoint |-> "", request |-> None, jobs |-> <<>>,
     locations |-> <<>>, loc_i |-> 0, locations_searched |-> <<>>,
     response |-> None, calls |-> <<>>, merged |-> <<>>, stage_in |-> <<>>]

\* The outcomes of the external calls made so far by the requests in flight.
InFlightCalls == calls \o suspended.calls

JobResponse(error, jobs_, searched) ==
    [error |-> error, jobs |-> jobs_, locations_searched |-> searched]

\* Mutant of except_response: the records gathered so far are returned.
except_partial(partial) == JobResponse(TRUE, partial, None)

\* except Exception: return JobResponse(error=True, jobs=[])
except_response(partial) == JobResponse(TRUE, <<>>, None)

\* CONFIG.get("usajobs_enabled") and CONFIG.get("usajobs_api_key")
UsajobsOn(config) ==
    /\ Get(config, "usajobs_enabled", FALSE)
    /\ ~IsNone(Get(config, "usajobs_api_key", None))

\* The records fetched so far in this request.
RECURSIVE Fetched(_)
Fetched(log) ==
    IF log = <<>> THEN 0
    ELSE (IF IsRaise(Head(log).out) THEN 0 ELSE Len(Head(log).out.list)) + Fetched(Tail(log))

\* scrape_single_location: scrape_jobs(**params) returns the records or raises.
ScrapeOutcomes(log) ==
    {Raised} \cup {List(s) : s \in SeqsUpTo(MultiJobs, MaxFetched - Fetched(log))}

\* scrape_usajobs: [] without credentials or on any error of the request,
\* else the records built from the reply.
UsajobsOutcomes(config, log) ==
    IF IsNone(Get(config, "usajobs_api_key", None)) \/ IsNone(Get(config, "usajobs_email", None))
    THEN {List(<<>>)}
    ELSE {List(s) : s \in SeqsUpTo(GovJobs, MaxFetched - Fetched(log))}

Call(source, loc_name, is_remote, out) ==
    [source |-> source, loc_name |-> loc_name, is_remote |-> is_remote, out |-> out]

InitWith(configs) ==
    /\ CONFIG \in configs
    /\ pc = "idle"
    /\ endpoint = ""
    /\ request = None
    /\ jobs = <<>>
    /\ locations = <<>>
    /\ loc_i = 0
    /\ locations_searched = <<>>
    /\ response = None
    /\ calls = <<>>
    /\ merged = <<>>
    /\ stage_in = <<>>
    /\ loaded = CONFIG
    /\ suspended = NoRequest

Init == InitWith(Configs)

\* The handler's except clause: whatever was built so far is dropped.
Fail ==
    /\ pc' = "done"
    /\ response' = except_response(jobs)
    /\ jobs' = <<>>

(***************************************************************************)
(* search_all, lines 580-585: the locations to iterate                     *)
(***************************************************************************)
LocationsFor(config, req) ==
    LET configured == Get(config, "locations", <<>>)
    IN  IF configured # <<>> THEN configured
        ELSE IF ~IsNone(req.location) /\ req.location.str # ""
             THEN <<[name |-> req.location.str, location |-> req.location.str,
                     distance |-> req.distance]>>
             ELSE <<[name |-> "default", is_remote |-> OrFalse(req.isRemote)]>>

\* A request arrives: the handler's locals are initialised.
Receive(Reqs) ==
    /\ pc = "idle"
    /\ \E ep \in {"get_jobs", "search_all"}, req \in Reqs :
        /\ endpoint' = ep
        /\ request' = req
        /\ IF ep = "get_jobs"
           THEN /\ pc' = "gj_scrape"
                /\ UNCHANGED <<locations, loc_i>>
           ELSE /\ pc' = "sa_location"
                /\ locations' = LocationsFor(CONFIG, req)
                /\ loc_i' = 1
    /\ UNCHANGED <<CONFIG, loaded, suspended, jobs, locations_searched, response, calls,
                   merged, stage_in>>

(***************************************************************************)
(* get_jobs, lines 513-539                                                 *)
(***************************************************************************)
GJ_Scrape ==
    /\ pc = "gj_scrape"
    /\ \E out \in ScrapeOutcomes(InFlightCalls) :
        /\ calls' = Append(calls, Call("multi", "", OrFalse(request.isRemote), out))
        /\ IF IsRaise(out)
           THEN Fail
           ELSE /\ jobs' = out.list
                /\ pc' = "gj_usajobs"
                /\ UNCHANGED response
    /\ UNCHANGED <<CONFIG, loaded, suspended, endpoint, request, locations, loc_i,
                   locations_searched, merged, stage_in>>

GJ_Usajobs ==
    /\ pc = "gj_usajobs"
    /\ IF UsajobsOn(CONFIG)
       THEN \E out \in UsajobsOutcomes(CONFIG, InFlightCalls) :
                /\ calls' = Append(calls, Call("usajobs", "", OrFalse(request.isRemote), out))
                /\ jobs' = jobs \o out.list
       ELSE UNCHANGED <<calls, jobs>>
    /\ pc' = "gj_validate"
    /\ UNCHANGED <<CONFIG, loaded, suspended, endpoint, request, locations, loc_i,
                   locations_searched, response, merged, stage_in>>

GJ_Validate ==
    /\ pc = "gj_validate"
    /\ merged' = jobs
    /\ stage_in' = jobs
    /\ IF OrFalse(request.isRemote)
       THEN LET validated == validate_remote_jobs(jobs)
            IN  IF IsRaise(validated)
                THEN Fail
                ELSE /\ jobs' = validated.list
                     /\ pc' = "filter"
                     /\ UNCHANGED response
       ELSE /\ pc' = "filter"
            /\ UNCHANGED <<jobs, response>>
    /\ UNCHANGED <<CONFIG, loaded, suspended, endpoint, request, locations, loc_i,
                   locations_searched, calls>>

(***************************************************************************)
(* search_all, lines 590-646                                               *)
(***************************************************************************)
\* Mutant of Tag: the name is written over the record's location.
TagLocation(jobs_, name) == [i \in 1..Len(jobs_) |-> Put(jobs_[i], "location", name)]

\* for job in jobs: job["_location_name"] = name
Tag(jobs_, name) == [i \in 1..Len(jobs_) |-> Put(jobs_[i], "_location_name", name)]

\* The body of the try of one location: what all_jobs is extended with. An
\* exception of the scraper or of the validation leaves all_jobs as it was.
LocationJobs(out, is_remote, loc_name) ==
    IF IsRaise(out) THEN <<>>
    ELSE LET validated == IF is_remote THEN validate_remote_jobs(out.list) ELSE out
         IN  IF IsRaise(validated) THEN <<>> ELSE Tag(validated.list, loc_name)

\* Whether the try of one location ended in its except clause.
LocationFailed(out, is_remote) ==
    IsRaise(out) \/ (is_remote /\ IsRaise(validate_remote_jobs(out.list)))

\* Mutant of NextLocation: break in place of continue.
NextLocationBreak(i, n, failed) == IF failed THEN n + 1 ELSE i + 1

\* The index the for loop goes on with: except ... continue
NextLocation(i, n, failed) == i + 1

AfterLocations(config) == IF UsajobsOn(config) THEN "sa_usajobs" ELSE "sa_dedupe"

SA_Location ==
    /\ pc = "sa_location"
    /\ loc_i <= Len(locations)
    /\ LET loc == locations[loc_i]
           loc_name == Get(loc, "name", "unknown")
           is_remote == Get(loc, "is_remote", FALSE)
       IN  \E out \in ScrapeOutcomes(InFlightCalls) :
            /\ locations_searched' = Append(locations_searched, loc_name)
            /\ calls' = Append(calls, Call("multi", loc_name, is_remote, out))
            /\ jobs' = jobs \o LocationJobs(out, is_remote, loc_name)
            /\ LET next == NextLocation(loc_i, Len(locations), LocationFailed(out, is_remote))
               IN  IF next <= Len(locations)
                   THEN /\ loc_i' = next
                        /\ pc' = "sa_location"
                   ELSE /\ loc_i' = 1
                        /\ pc' = AfterLocations(CONFIG)
    /\ UNCHANGED <<CONFIG, loaded, suspended, endpoint, request, locations, response,
                   merged, stage_in>>

SA_Usajobs ==
    /\ pc = "sa_usajobs"
    /\ loc_i <= Len(locations)
    /\ LET loc == locations[loc_i]
           loc_name == Get(loc, "name", "unknown")
           is_remote == Get(loc, "is_remote", FALSE)
       IN  \E out \in UsajobsOutcomes(CONFIG, InFlightCalls) :
            /\ calls' = Append(calls, Call("usajobs", loc_name, is_remote, out))
            /\ jobs' = jobs \o Tag(out.list, loc_name \o "_usajobs")
    /\ loc_i' = loc_i + 1
    /\ pc' = IF loc_i + 1 <= Len(locations) THEN "sa_usajobs" ELSE "sa_dedupe"
    /\ UNCHANGED <<CONFIG, loaded, suspended, endpoint, request, locations,
                   locations_searched, response, merged, stage_in>>

SA_Dedupe ==
    /\ pc = "sa_dedupe"
    /\ merged' = jobs
    /\ stage_in' = jobs
    /\ jobs' = dedupe_jobs(jobs)
    /\ pc' = "filter"
    /\ UNCHANGED <<CONFIG, loaded, suspended, endpoint, request, locations, loc_i,
                   locations_searched, response, calls>>

(***************************************************************************)
(* Both handlers: exclusion, AND mode, scoring, the response               *)
(* (get_jobs lines 541-562, search_all lines 648-674)                      *)
(***************************************************************************)
\* Mutant of ExcludeList: the request's list overrides the configured one.
ExcludeListOverride(req, config) ==
    LET configured == Get(config, "exclude_keywords", List(<<>>))
    IN  IF IsNone(configured) THEN TypeError
        ELSE IF OrEmpty(req.excludeKeywords) # <<>> THEN List(OrEmpty(req.excludeKeywords))
        ELSE configured

\* list(request.excludeKeywords or []) + CONFIG.get("exclude_keywords", []):
\* TypeError when the configured value is None
ExcludeList(req, config) ==
    LET configured == Get(config, "exclude_keywords", List(<<>>))
    IN  IF IsNone(configured) THEN TypeError
        ELSE List(OrEmpty(req.excludeKeywords) \o configured.list)

\* Mutant of ConfigAfterExclude: the configured list is extended in place
\* (CONFIG["exclude_keywords"] += request.excludeKeywords or []).
ConfigExtended(req, config) ==
    LET configured == Get(config, "exclude_keywords", List(<<>>))
    IN  IF IsNone(configured) THEN config
        ELSE Put(config, "exclude_keywords",
                 List(configured.list \o OrEmpty(req.excludeKeywords)))

\* CONFIG once the exclude list is built: list(...) + CONFIG.get(...) makes a
\* new list and leaves the configured one as it was.
ConfigAfterExclude(req, config) == config

Filter ==
    /\ pc = "filter"
    /\ stage_in' = jobs
    /\ CONFIG' = ConfigAfterExclude(request, CONFIG)
    /\ LET exclude_list == ExcludeList(request, CONFIG)
       IN  IF IsRaise(exclude_list)
           THEN Fail
           ELSE /\ jobs' = filter_jobs(jobs, exclude_list.list)
                /\ pc' = "and_mode"
                /\ UNCHANGED response
    /\ UNCHANGED <<loaded, suspended, endpoint, request, locations, loc_i,
                   locations_searched, calls, merged>>

AndMode ==
    /\ pc = "and_mode"
    /\ stage_in' = jobs
    /\ jobs' = require_all_keywords(jobs, request)
    /\ pc' = "score"
    /\ UNCHANGED <<CONFIG, loaded, suspended, endpoint, request, locations, loc_i,
                   locations_searched, response, calls, merged>>

Score ==
    /\ pc = "score"
    /\ stage_in' = jobs
    /\ jobs' = score_jobs(jobs, CONFIG)
    /\ pc' = "respond"
    /\ UNCHANGED <<CONFIG, loaded, suspended, endpoint, request, locations, loc_i,
                   locations_searched, response, calls, merged>>

\* jobs = clean_job_data(jobs); return JobResponse(error=False, jobs=jobs[:limit], ...)
Respond ==
    /\ pc = "respond"
    /\ jobs' = clean_job_data(jobs)
    /\ response' = JobResponse(FALSE, Slice(jobs', request.limit),
                               IF endpoint = "search_all" THEN List(locations_searched)
                               ELSE None)
    /\ pc' = "done"
    /\ UNCHANGED <<CONFIG, loaded, suspended, endpoint, request, locations, loc_i,
                   locations_searched, calls, merged, stage_in>>

\* The steps of the two handlers once a request is being served.
Step ==
    \/ GJ_Scrape
    \/ GJ_Usajobs
    \/ GJ_Validate
    \/ SA_Location
    \/ SA_Usajobs
    \/ SA_Dedupe
    \/ Filter
    \/ AndMode
    \/ Score
    \/ Respond

Next == Receive(Requests) \/ Step

Spec == Init /\ [][Next]_vars

(***************************************************************************)
(* The same handlers under requests that vary the keyword parameters       *)
(***************************************************************************)
FilterConfigs ==
    { Config(<<>>, exclude_keywords, usajobs) :
        exclude_keywords \in {List(<<>>), List(<<"manager">>)},
        usajobs \in BOOLEAN }

\* limit is left at its default
FilterRequests ==
    { Request(keywords, excludeKeywords, None, location, requireAllKeywords, 10) :
        keywords \in {None, List(<<"Kubernetes", "terraform">>)},
        excludeKeywords \in {None, List(<<"INTERN">>)},
        location \in {None, Str("Austin, TX")},
        requireAllKeywords \in BOOLEAN }

InitFilter == InitWith(FilterConfigs)

NextFilter == Receive(FilterRequests) \/ Step

SpecFilter == InitFilter /\ [][NextFilter]_vars

(***************************************************************************)
(* The same handlers under configurations that vary the scoring section    *)
(***************************************************************************)
\* scoring: with some of its lists given in lower case, the others defaulted
lower_case_scoring ==
    [preferred_titles |-> <<"devops">>,
     bad_titles |-> <<"intern", "manager">>,
     good_locations |-> <<"austin", "remote">>,
     good_skills |-> <<"terraform", "kubernetes">>,
     red_flags |-> <<"acme", "terraform">>,
     large_companies |-> <<"globex">>]

\* scoring: with its lists written as a person would, in mixed case
mixed_case_scoring ==
    [mgmt_titles |-> <<"Manager">>,
     senior_ic_titles |-> <<"SR ">>,
     preferred_titles |-> <<"DevOps">>,
     bad_titles |-> <<"Intern">>,
     good_locations |-> <<"Austin">>,
     good_skills |-> <<"Terraform">>,
     red_flags |-> <<"ACME">>,
     large_companies |-> <<"Globex">>]

\* load_config() merges every key of the file, the scoring section included
ScoringConfigs ==
    { Config(<<>>, List(<<>>), usajobs) : usajobs \in BOOLEAN }
        \cup { Put(Config(<<>>, List(<<>>), usajobs), "scoring", scoring) :
                  usajobs \in BOOLEAN,
                  scoring \in {lower_case_scoring, mixed_case_scoring} }

\* every parameter is left at its default
ScoringRequests == { Request(None, None, None, None, FALSE, 10) }

InitScoring == InitWith(ScoringConfigs)

NextScoring == Receive(ScoringRequests) \/ Step

SpecScoring == InitScoring /\ [][NextScoring]_vars

(***************************************************************************)
(* GET /health and GET /config, lines 681-700                              *)
(***************************************************************************)
health(config) == [status |-> "ok", config_loaded |-> "searches" \in DOMAIN config]

\* len() of a key that was loaded as None raises TypeError
get_config(config) ==
    LET exclude_keywords == Get(config, "exclude_keywords", List(<<>>))
    IN  IF IsNone(exclude_keywords) THEN TypeError
        ELSE [sites |-> config.sites,
              hours_old |-> config.hours_old,
              results_wanted |-> config.results_wanted,
              country_indeed |-> config.country_indeed,
              linkedin_fetch_description |-> config.linkedin_fetch_description,
              searches_count |-> Len(Get(config, "searches", <<>>)),
              locations_count |-> Len(Get(config, "locations", <<>>)),
              exclude_keywords_count |-> Len(exclude_keywords.list),
              include_keywords_count |-> Len(Get(config, "include_keywords", <<>>)),
              usajobs_enabled |-> Get(config, "usajobs_enabled", FALSE)]

\* A GET request arrives.
ReceiveInfo ==
    /\ pc = "idle"
    /\ \E ep \in {"health", "get_config"} : endpoint' = ep
    /\ pc' = "info"
    /\ UNCHANGED <<CONFIG, loaded, suspended, request, jobs, locations, loc_i,
                   locations_searched, response, calls, merged, stage_in>>

InfoRespond ==
    /\ pc = "info"
    /\ response' = IF endpoint = "health" THEN health(CONFIG) ELSE get_config(CONFIG)
    /\ pc' = "done"
    /\ UNCHANGED <<CONFIG, loaded, suspended, endpoint, request, jobs, locations, loc_i,
                   locations_searched, calls, merged, stage_in>>

(***************************************************************************)
(* Two requests in flight                                                  *)
(***************************************************************************)
\* The steps that read and write only the handler's locals (validation,
\* deduplication, AND mode, sanitization and truncation).
LocalSteps == {"gj_validate", "sa_dedupe", "and_mode", "respond"}

\* The server goes on with the other request: the handlers share CONFIG and
\* nothing else.  A switch is allowed before every step that reads CONFIG or
\* calls an adapter; a step on the handler's locals alone commutes with every
\* step of the other handler and runs right after the step before it.  This
\* covers every way the server can schedule two handlers.
Switch ==
    /\ suspended # Locals
    /\ pc \notin LocalSteps
    /\ suspended' = Locals
    /\ pc' = suspended.pc
    /\ endpoint' = suspended.endpoint
    /\ request' = suspended.request
    /\ jobs' = suspended.jobs
    /\ locations' = suspended.locations
    /\ loc_i' = suspended.loc_i
    /\ locations_searched' = suspended.locations_searched
    /\ response' = suspended.response
    /\ calls' = suspended.calls
    /\ merged' = suspended.merged
    /\ stage_in' = suspended.stage_in
    /\ UNCHANGED <<CONFIG, loaded>>

ConcurrentConfigs == { Config(<<>>, List(<<"manager">>), TRUE) }

\* The request that arrives first brings an exclude list of its own, the one
\* that arrives while it is in flight brings none.
ConcurrentRequests ==
    IF suspended = NoRequest
    THEN { Request(None, List(<<"INTERN">>), None, None, FALSE, 10) }
    ELSE { Request(None, None, None, None, FALSE, 10) }

InitConcurrent == InitWith(ConcurrentConfigs)

NextConcurrent ==
    \/ Receive(ConcurrentRequests)
    \/ ReceiveInfo
    \/ InfoRespond
    \/ Step
    \/ Switch

SpecConcurrent == InitConcurrent /\ [][NextConcurrent]_vars

(***************************************************************************)
(* Properties                                                              *)
(***************************************************************************)
Responded == pc = "done" /\ ~response.error

RemoteRequest == OrFalse(request.isRemote)

\* The subsequence of l at the indices of I, in order.
RECURSIVE SubseqAt(_, _, _)
SubseqAt(l, I, i) ==
    IF i > Len(l) THEN <<>>
    ELSE (IF i \in I THEN <<l[i]>> ELSE <<>>) \o SubseqAt(l, I, i + 1)

\* text contains kw, ignoring case
ContainsCI(text, kw) == In(lower(kw), lower(text))

SeqToSet(s) == {s[i] : i \in 1..Len(s)}

WithoutKeys(job, keys) == [k \in DOMAIN job \ keys |-> job[k]]

\* The location names a specific place and carries no generic-remote marker.
SpecificPlace(job) ==
    LET location == LocationOf(job)
    IN  location # "" /\ ~IsGeneric(location) /\ IsSpecific(location)

MaxSalaryAtLeast(job, n) ==
    LET m == Get(job, "max_amount", None) IN IsNum(m) /\ m.num >= n

MaxSalaryBelow(job, n) ==
    LET m == Get(job, "max_amount", None) IN IsNum(m) /\ m.num < n

\* C1: the jobs list of a response holds at most `limit` records, for every
\* limit the request model accepts (0 and negative values included).
C1_AtMostLimit == Responded => Len(response.jobs) <= request.limit

\* C2: the jobs of a non-error response are in non-increasing _score order, and
\* two returned records of equal _score appear in the relative order they had
\* in the list handed to the scorer.
C2_SortedStable ==
    Responded =>
        LET out == response.jobs
            inp == [i \in 1..Len(stage_in) |-> CleanOne(ScoreOne(stage_in[i], CONFIG))]
        IN  \A i, j \in 1..Len(out) :
                i < j =>
                    /\ out[i]._score >= out[j]._score
                    /\ out[i]._score = out[j]._score =>
                           \E p, q \in 1..Len(inp) :
                               p < q /\ inp[p] = out[i] /\ inp[q] = out[j]

\* Two different records of equal score are returned together.
C2_Witness ==
    /\ Responded
    /\ \E i, j \in 1..Len(response.jobs) :
        /\ i < j
        /\ response.jobs[i]._score = response.jobs[j]._score
        /\ response.jobs[i] # response.jobs[j]

\* The record at i is the first of l with its job_url, or has none.
FirstWithUrl(l, i) ==
    UrlOf(l[i]) = "" \/ \A j \in 1..(i - 1) : UrlOf(l[j]) # UrlOf(l[i])

\* C3: dedupe_jobs returns its input, in order, restricted to the first record
\* of each non-empty job_url and every record without one; in /search-all no two
\* returned records share a non-empty job_url and the survivor is the one of the
\* earliest location/source among the merged records.
C3_DedupeKeepsFirst ==
    /\ (pc = "filter" /\ endpoint = "search_all") =>
           jobs = SubseqAt(stage_in, {i \in 1..Len(stage_in) : FirstWithUrl(stage_in, i)}, 1)
    /\ (Responded /\ endpoint = "search_all") =>
           LET out == response.jobs
           IN  /\ \A i, j \in 1..Len(out) :
                      i # j => UrlOf(out[i]) = "" \/ UrlOf(out[i]) # UrlOf(out[j])
               /\ \A i \in 1..Len(out) :
                      UrlOf(out[i]) # "" =>
                          \E p \in 1..Len(merged) :
                              /\ UrlOf(merged[p]) = UrlOf(out[i])
                              /\ FirstWithUrl(merged, p)
                              /\ merged[p]._location_name = out[i]._location_name

\* Two sources returned the same job_url and the later record was removed.
C3_Witness ==
    /\ pc = "filter"
    /\ endpoint = "search_all"
    /\ Len(jobs) < Len(stage_in)
    /\ \E i, j \in 1..Len(stage_in) :
        /\ i < j
        /\ UrlOf(stage_in[i]) # ""
        /\ UrlOf(stage_in[i]) = UrlOf(stage_in[j])
        /\ stage_in[i]._location_name # stage_in[j]._location_name

\* What the claim says validate_remote_jobs decides for a record.
C4_Keeps(job) ==
    IF SpecificPlace(job) THEN MaxSalaryAtLeast(job, salary_threshold) ELSE TRUE

\* C4: validate_remote_jobs keeps a record with an empty or generic location,
\* keeps a record with a specific location exactly when its max_amount is at
\* least 150000 (then with _high_salary = true), and keeps an ambiguous one.
C4_RemoteValidationBySalary ==
    (pc = "filter" /\ endpoint = "get_jobs" /\ RemoteRequest) =>
        \A i \in 1..Len(stage_in) :
            LET job == stage_in[i]
                kept == {k \in 1..Len(jobs) :
                            WithoutKeys(jobs[k], {"_remote_validated", "_high_salary"}) = job}
            IN  /\ C4_Keeps(job) <=> kept # {}
                /\ SpecificPlace(job) =>
                       \A k \in kept : Get(jobs[k], "_high_salary", FALSE)

\* C5: in both entry modes remote validation is applied to the merged records
\* of all sources exactly when the request specifies remote: then no returned
\* record has a specific location and a maximum salary below 150000; otherwise
\* every fetched record reaches the merge and passes the validation stage.
C5_ValidationFollowsRequest ==
    /\ (Responded /\ RemoteRequest) =>
           \A i \in 1..Len(response.jobs) :
               ~(SpecificPlace(response.jobs[i])
                 /\ MaxSalaryBelow(response.jobs[i], salary_threshold))
    /\ (Responded /\ ~RemoteRequest) => Len(merged) = Fetched(calls)
    /\ (pc = "filter" /\ endpoint = "get_jobs" /\ ~RemoteRequest) => jobs = stage_in

\* C6: when the multi-site scraper raises during /get-jobs the response still
\* has error = false and holds only records of the government adapter.
C6_ScraperFailureNotFatal ==
    (pc = "done" /\ endpoint = "get_jobs" /\ \E i \in 1..Len(calls) :
                                                  calls[i].source = "multi" /\ IsRaise(calls[i].out)) =>
        /\ ~response.error
        /\ \A i \in 1..Len(response.jobs) : response.jobs[i].site = "usajobs"

MultiCalls == SelectSeq(calls, LAMBDA c : c.source = "multi")

\* The scraper raised for this call, or the validation of its records did.
CallFailed(c) ==
    IsRaise(c.out) \/ (c.is_remote /\ IsRaise(validate_remote_jobs(c.out.list)))

ConfigUsable == ~IsNone(Get(CONFIG, "exclude_keywords", List(<<>>)))

\* C7: in /search-all a location whose adapter call or validation raises
\* contributes no records, every location is still searched, the records of the
\* other locations reach the merge, and the failure does not make the response
\* an error.
C7_LocationFailureIsolated ==
    (endpoint = "search_all" /\ pc \in {"filter", "and_mode", "score", "respond", "done"}) =>
        /\ Len(MultiCalls) = Len(locations)
        /\ locations_searched = [i \in 1..Len(locations) |-> Get(locations[i], "name", "unknown")]
        /\ \A i \in 1..Len(MultiCalls) :
               LET c == MultiCalls[i]
                   reached == SelectSeq(merged, LAMBDA job : job._location_name = c.loc_name)
               IN  /\ c.loc_name = locations_searched[i]
                   /\ IF CallFailed(c) THEN reached = <<>>
                      ELSE reached = Tag(IF c.is_remote
                                         THEN validate_remote_jobs(c.out.list).list
                                         ELSE c.out.list, c.loc_name)
        /\ (pc = "done" /\ ConfigUsable) => ~response.error

\* A location failed, a later one was searched and its records were returned.
C7_Witness ==
    /\ Responded
    /\ endpoint = "search_all"
    /\ response.jobs # <<>>
    /\ \E i, k \in 1..Len(MultiCalls) :
        /\ i < k
        /\ CallFailed(MultiCalls[i])
        /\ ~CallFailed(MultiCalls[k])
        /\ MultiCalls[k].out.list # <<>>

\* An exception reached the try of the handler itself: in get_jobs from the
\* scraper, from the validation or from building the exclude list, in search_all
\* from building the exclude list (its per-location try took the others).
BoundaryException ==
    IF endpoint = "get_jobs"
    THEN \/ \E i \in 1..Len(calls) : calls[i].source = "multi" /\ IsRaise(calls[i].out)
         \/ RemoteRequest /\ IsRaise(validate_remote_jobs(merged))
         \/ ~ConfigUsable
    ELSE ~ConfigUsable

\* C8: no exception escapes a handler: every request ends in a JobResponse, an
\* exception that reaches the handler's try gives exactly error = true with an
\* empty jobs list, and error = true implies jobs = [].
C8_ErrorResponseIsEmpty ==
    pc = "done" =>
        /\ DOMAIN response = {"error", "jobs", "locations_searched"}
        /\ response.error => response.jobs = <<>>
        /\ BoundaryException => response = JobResponse(TRUE, <<>>, None)

\* A handler failed with records already fetched.
C8_Witness ==
    /\ pc = "done"
    /\ response.error
    /\ Fetched(calls) > 0

\* The keywords of the request's excludeKeywords and of the configured list.
ExcludeUnion ==
    SeqToSet(OrEmpty(request.excludeKeywords))
        \cup SeqToSet(OrEmpty(Get(CONFIG, "exclude_keywords", List(<<>>))))

TitleExcluded(job) == \E kw \in ExcludeUnion : ContainsCI(Get(job, "title", ""), kw)

\* C9: the exclusion stage leaves its input, in order, restricted to the records
\* whose title contains no keyword of the union of the request's and the
\* configured exclude lists, ignoring case; description and company play no part.
C9_ExclusionByTitle ==
    pc = "and_mode" =>
        jobs = SubseqAt(stage_in, {i \in 1..Len(stage_in) : ~TitleExcluded(stage_in[i])}, 1)

\* Both lists hold a keyword, a record was dropped, and a record was kept whose
\* description or company holds an excluded keyword.
C9_Witness ==
    /\ pc = "and_mode"
    /\ OrEmpty(request.excludeKeywords) # <<>>
    /\ OrEmpty(Get(CONFIG, "exclude_keywords", List(<<>>))) # <<>>
    /\ Len(jobs) < Len(stage_in)
    /\ \E i \in 1..Len(jobs), kw \in ExcludeUnion :
        \/ ContainsCI(Get(jobs[i], "description", ""), kw)
        \/ ContainsCI(Get(jobs[i], "company", ""), kw)

\* The record holds every requested keyword in its title or its description.
MatchesAll(job) ==
    \A kw \in SeqToSet(OrEmpty(request.keywords)) :
        \/ ContainsCI(Get(job, "title", ""), kw)
        \/ ContainsCI(Get(job, "description", ""), kw)

AndRequested == request.requireAllKeywords /\ OrEmpty(request.keywords) # <<>>

\* C10: with requireAllKeywords and a non-empty keyword list the AND-mode stage
\* keeps exactly the records holding every keyword in title or description, so
\* every returned record holds them all; without requireAllKeywords the stage
\* drops nothing.
C10_AndMode ==
    /\ pc = "score" =>
           IF AndRequested
           THEN jobs = SubseqAt(stage_in, {i \in 1..Len(stage_in) : MatchesAll(stage_in[i])}, 1)
           ELSE jobs = stage_in
    /\ (Responded /\ AndRequested) =>
           \A i \in 1..Len(response.jobs) : MatchesAll(response.jobs[i])

\* The AND-mode stage dropped one record and kept another.
C10_Witness ==
    /\ pc = "score"
    /\ AndRequested
    /\ jobs # <<>>
    /\ Len(jobs) < Len(stage_in)

\* The keyword as configured occurs in the lower-cased field.
AsConfigured(kw, field) == In(kw, lower(field))

\* The field holds the keyword, ignoring the case of both.
IgnoringCase(kw, field) == ContainsCI(field, kw)

\* The number of entries of kws that hit the field, an entry listed twice
\* counting twice.
RECURSIVE CountTrue(_)
CountTrue(bs) == IF bs = <<>> THEN 0 ELSE (IF Head(bs) THEN 1 ELSE 0) + CountTrue(Tail(bs))

Hits(kws, field, Hit(_, _)) == CountTrue([i \in 1..Len(kws) |-> Hit(kws[i], field)])

AnyHit(kws, field, Hit(_, _)) == \E kw \in SeqToSet(kws) : Hit(kw, field)

\* The sum of the deltas of the scoring rules that apply to a record, a rule
\* applying when Hit says its keyword is in its field.
DeltaSum(job, config, Hit(_, _)) ==
    LET title == Get(job, "title", "")
        description == Get(job, "description", "")
        location == Get(job, "location", "")
        company == Get(job, "company", "")
        text == title \o " " \o description \o " " \o company
        role == IF AnyHit(ScoringList(config, "mgmt_titles", default_mgmt_titles), title, Hit)
                THEN 25
                ELSE IF AnyHit(ScoringList(config, "senior_ic_titles",
                                           default_senior_ic_titles), title, Hit)
                THEN 10
                ELSE -10
        preferred == IF AnyHit(ScoringList(config, "preferred_titles",
                                           default_preferred_titles), title, Hit)
                     THEN 15 ELSE 0
        bad == IF AnyHit(ScoringList(config, "bad_titles", default_bad_titles), title, Hit)
               THEN -20 ELSE 0
        good_location == IF AnyHit(ScoringList(config, "good_locations",
                                               default_good_locations), location, Hit)
                         THEN 10 ELSE 0
        remote == IF ContainsCI(location, "remote") \/ ContainsCI(title, "remote")
                  THEN 10 ELSE 0
        skills == 5 * Hits(ScoringList(config, "good_skills", default_good_skills),
                           description, Hit)
        flags == -10 * Hits(ScoringList(config, "red_flags", default_red_flags), text, Hit)
        large == IF AnyHit(ScoringList(config, "large_companies", default_large_companies),
                           company, Hit)
                 THEN -5 ELSE 0
        govt == IF lower(Get(job, "site", "")) = "usajobs" THEN 10 ELSE 0
    IN  role + preferred + bad + good_location + remote + skills + flags + large + govt

\* C11: the _score that score_jobs writes on a record is the sum of the deltas
\* of the rules that apply to it (one role delta, every other rule that
\* matches, one delta per skill and per red flag); it is the score the record
\* gets when scored alone, and scoring the scored list again changes nothing.
C11_ScoreIsSumOfDeltas ==
    /\ pc = "respond" =>
           /\ Len(jobs) = Len(stage_in)
           /\ \A i \in 1..Len(jobs) : jobs[i]._score = DeltaSum(jobs[i], CONFIG, AsConfigured)
           /\ \A p \in 1..Len(stage_in) :
                  LET alone == score_jobs(<<stage_in[p]>>, CONFIG)[1]
                  IN  /\ alone._score = DeltaSum(stage_in[p], CONFIG, AsConfigured)
                      /\ \E i \in 1..Len(jobs) : jobs[i] = alone
           /\ score_jobs(jobs, CONFIG) = jobs
    /\ Responded =>
           \A i \in 1..Len(response.jobs) :
               response.jobs[i]._score = DeltaSum(response.jobs[i], CONFIG, AsConfigured)

\* Two records were scored together, one of them a manager with a bad title,
\* two skills and a red flag under a configured scoring section.
C11_Witness ==
    /\ pc = "respond"
    /\ "scoring" \in DOMAIN CONFIG
    /\ Len(jobs) = 2
    /\ jobs[1]._score # jobs[2]._score
    /\ \E i \in 1..Len(jobs) :
        /\ jobs[i]._is_manager
        /\ AnyHit(ScoringList(CONFIG, "bad_titles", default_bad_titles),
                  jobs[i].title, AsConfigured)
        /\ Hits(ScoringList(CONFIG, "good_skills", default_good_skills),
                jobs[i].description, AsConfigured) = 2
        /\ Hits(ScoringList(CONFIG, "red_flags", default_red_flags),
                jobs[i].title \o " " \o jobs[i].description \o " " \o jobs[i].company,
                AsConfigured) > 0

\* C12: every keyword match of the scorer ignores case on both sides: whatever
\* the letter case of a configured keyword and of a record's field, the rule
\* fires when the field holds the keyword ignoring case, so the score is the
\* sum of the deltas under that match and _is_manager follows it.
C12_CaseInsensitiveMatch ==
    pc = "respond" =>
        \A i \in 1..Len(jobs) :
            /\ jobs[i]._score = DeltaSum(jobs[i], CONFIG, IgnoringCase)
            /\ AnyHit(ScoringList(CONFIG, "mgmt_titles", default_mgmt_titles),
                      jobs[i].title, IgnoringCase) => jobs[i]._is_manager

\* The fields a source provides for a record.
SourceFields ==
    {"site", "title", "company", "location", "job_url", "description", "date_posted",
     "min_amount", "max_amount", "interval", "job_type"}

ExtensionField(k) == SubSeq(k, 1, 1) = "_"

\* The records the adapters returned in the course of the request.
AdapterRecords ==
    UNION {SeqToSet(calls[i].out.list) : i \in {j \in 1..Len(calls) : ~IsRaise(calls[j].out)}}

\* The returned value is the adapter's value.
Untouched(returned, adapters) == returned = adapters

\* The returned value is the adapter's value, a NaN returned as null and a
\* datetime as its ISO-8601 text.
Serialized(returned, adapters) ==
    IF IsNaN(adapters) THEN returned = None
    ELSE IF IsDatetime(adapters) THEN returned = Str(adapters.dt \o "T00:00:00")
    ELSE returned = adapters

\* r is the adapter's record a with nothing but extension fields added, its own
\* fields related by Same.
ExtendsRecord(r, a, Same(_, _)) ==
    /\ DOMAIN a \subseteq DOMAIN r
    /\ \A k \in DOMAIN r \ DOMAIN a : ExtensionField(k) /\ k \notin SourceFields
    /\ \A k \in DOMAIN a : IF k \in TaggedKeys THEN Same(r[k], a[k]) ELSE r[k] = a[k]

\* C13 as stated: every record of a response is a record an adapter returned,
\* each source-provided field holding the adapter's value, with only
\* `_`-prefixed extension fields added by the pipeline.
C13_SourceFieldsUntouched ==
    Responded =>
        \A i \in 1..Len(response.jobs) :
            \E a \in AdapterRecords : ExtendsRecord(response.jobs[i], a, Untouched)

\* C13, amended: every record of a response is a record an adapter returned
\* with only `_`-prefixed extension fields added, each source-provided field
\* holding the adapter's value except that sanitization returns a NaN number as
\* null and a datetime as its ISO-8601 text.
C13_SourceFieldsSerialized ==
    Responded =>
        \A i \in 1..Len(response.jobs) :
            \E a \in AdapterRecords : ExtendsRecord(response.jobs[i], a, Serialized)

\* A response holds a record whose salary came as NaN and a record whose date
\* came as a datetime, both scored on the way.
C13_Witness ==
    /\ Responded
    /\ \E i, j \in 1..Len(response.jobs) :
        /\ \E a \in AdapterRecords :
               /\ IsNaN(a.min_amount)
               /\ ExtendsRecord(response.jobs[i], a, Serialized)
        /\ \E a \in AdapterRecords :
               /\ IsDatetime(a.date_posted)
               /\ ExtendsRecord(response.jobs[j], a, Serialized)
        /\ "_score" \in DOMAIN response.jobs[i]
        /\ "_score" \in DOMAIN response.jobs[j]

RECURSIVE Concat(_)
Concat(lists) == IF lists = <<>> THEN <<>> ELSE Head(lists) \o Concat(Tail(lists))

CallsOf(log, source) == SelectSeq(log, LAMBDA c : c.source = source)

\* The stages both handlers share, run on the gathered records.
AloneFrom(all_jobs, req, config, searched) ==
    LET exclude_list == ExcludeList(req, config)
    IN  IF IsRaise(exclude_list) THEN JobResponse(TRUE, <<>>, None)
        ELSE LET kept == require_all_keywords(filter_jobs(all_jobs, exclude_list.list), req)
             IN  JobResponse(FALSE,
                             Slice(clean_job_data(score_jobs(kept, config)), req.limit),
                             searched)

\* The response of /get-jobs to req, run alone under config with the adapters
\* answering as the log says.
AloneGetJobs(req, config, log) ==
    LET multi == CallsOf(log, "multi")[1].out
        gov == CallsOf(log, "usajobs")
        all_jobs == multi.list \o Concat([i \in 1..Len(gov) |-> gov[i].out.list])
        validated == IF OrFalse(req.isRemote) THEN validate_remote_jobs(all_jobs)
                     ELSE List(all_jobs)
    IN  IF IsRaise(multi) \/ IsRaise(validated) THEN JobResponse(TRUE, <<>>, None)
        ELSE AloneFrom(validated.list, req, config, None)

\* The response of /search-all to req, run alone under config with the
\* adapters answering as the log says.
AloneSearchAll(req, config, log) ==
    LET locs == LocationsFor(config, req)
        name(i) == Get(locs[i], "name", "unknown")
        multi == CallsOf(log, "multi")
        gov == CallsOf(log, "usajobs")
        scraped == [i \in 1..Len(multi) |->
                       LocationJobs(multi[i].out, Get(locs[i], "is_remote", FALSE), name(i))]
        government == [i \in 1..Len(gov) |-> Tag(gov[i].out.list, name(i) \o "_usajobs")]
    IN  AloneFrom(dedupe_jobs(Concat(scraped) \o Concat(government)), req, config,
                  List([i \in 1..Len(locs) |-> name(i)]))

\* The response a handler's request gets when it is the only one the server
\* runs, under the configuration loaded at startup.
Alone(h) ==
    IF h.endpoint = "get_jobs" THEN AloneGetJobs(h.request, loaded, h.calls)
    ELSE IF h.endpoint = "search_all" THEN AloneSearchAll(h.request, loaded, h.calls)
    ELSE IF h.endpoint = "health" THEN health(loaded)
    ELSE get_config(loaded)

\* C14: however the steps of two requests to /get-jobs, /search-all, /health
\* and /config interleave, the process-wide configuration stays the value loaded
\* at startup, nested lists included, and each response is the one its request
\* gets when run alone against the same adapter outputs.
C14_RequestsIndependent ==
    /\ CONFIG = loaded
    /\ \A h \in {Locals, suspended} : h.pc = "done" => h.response = Alone(h)

\* A request with its own exclude list has passed the exclusion stage while
\* another request was in flight, and that one has been answered with records.
C14_Witness ==
    /\ pc = "done"
    /\ endpoint \in {"get_jobs", "search_all"}
    /\ ~response.error
    /\ response.jobs # <<>>
    /\ suspended.pc = "score"
    /\ OrEmpty(suspended.request.excludeKeywords) # <<>>
    /\ OrEmpty(request.excludeKeywords) = <<>>
    /\ suspended.calls # <<>>

====
